---- MODULE Spec2Model ----
(***************************************************************************)
(* Memory-sampling core of the Memory Monitor app (src/main.py): the /proc *)
(* parsers and the snapshot provider, the synthetic load generator, the    *)
(* sampler driven by the Kivy Clock, and the CSV save step.                *)
(*                                                                         *)
(* Time is counted in quarter seconds: time.sleep(0.25) is 1 unit, the     *)
(* deferred save (0.5 s) 2 units, the sampling interval (1.0 s) 4 units.   *)
(* Text is a sequence of symbols: a label, ":", " ", a digit or a unit.    *)
(***************************************************************************)
EXTENDS Integers, Sequences, FiniteSets, TLC

VARIABLES
    now,          \* time.time(), in quarter seconds
    sampling,     \* self.sampling
    samples,      \* self.samples
    stop_event,   \* self.stop_event (threading.Event): TRUE when set
    start_time,   \* self._start_time
    status_label, \* root.ids.status_label.text
    footer_label, \* root.ids.footer_label.text
    clock,        \* events scheduled on the Kivy Clock, in scheduling order
    threads,      \* the worker threads started so far, one per start_test
    csv_files,    \* the CSV files written so far
    runs,         \* history: how each run ended, what its deferred save reported
    last,         \* history: the button handler that ran last, and its outcome
    presses,      \* history: how many times a button was pressed
    heap_tight,   \* whether an allocation can raise MemoryError
    has_jnius,    \* _HAS_JNIUS
    meminfo,      \* content of /proc/meminfo, or Missing
    status,       \* content of /proc/<pid>/status, or Missing
    sysinfo,      \* get_memory_snapshot: the last read_proc_meminfo() result
    procinfo,     \* get_memory_snapshot: the last read_proc_status() result
    info          \* the last result of get_memory_snapshot, or None

vars == <<now, sampling, samples, stop_event, start_time, status_label,
          footer_label, clock, threads, csv_files, runs, last, presses,
          heap_tight, has_jnius, meminfo, status, sysinfo, procinfo, info>>

appVars == <<now, sampling, samples, stop_event, start_time, status_label,
             footer_label, clock, threads, csv_files, runs>>

envVars == <<heap_tight, has_jnius, meminfo, status>>

snapVars == <<sysinfo, procinfo, info>>

-----------------------------------------------------------------------------
(* Bounds of the model *)

MaxLines == 2        \* lines per /proc file
MaxTime == 10        \* the clock stops advancing here
MaxPresses == 4      \* button presses (Start, Stop, Save)
LoadDuration == 12   \* duration_sec of a load generator run on its own
duration_sec == 5    \* self.duration_sec, 1.25 s here (180 s in the app)

(* Program constants *)

sample_interval == 4 \* self.sample_interval = 1.0
SaveDelay == 2       \* Clock.schedule_once(..., 0.5)
SleepTime == 1       \* time.sleep(0.25)
ChunksPerIter == 6   \* for _ in range(6)
KeepLimit == 40      \* if len(allocated) > 40
DropCount == 10      \* allocated = allocated[10:]
Unknown == -1        \* the sentinel of an absent field

None == [none |-> TRUE]
Missing == [exists |-> FALSE, lines |-> <<>>]
File(lines) == [exists |-> TRUE, lines |-> lines]

-----------------------------------------------------------------------------
(* Text helpers: str.split(':', 1), str.strip(), str.split(), int() *)

Digits == {"0", "1", "2", "3", "4", "5", "6", "7", "8", "9"}

DigitVal(c) ==
    CASE c = "0" -> 0 [] c = "1" -> 1 [] c = "2" -> 2 [] c = "3" -> 3
      [] c = "4" -> 4 [] c = "5" -> 5 [] c = "6" -> 6 [] c = "7" -> 7
      [] c = "8" -> 8 [] c = "9" -> 9

\* index of the first ":" of s, 0 when there is none
RECURSIVE FindColon(_, _)
FindColon(s, i) ==
    IF i > Len(s) THEN 0
    ELSE IF s[i] = ":" THEN i
    ELSE FindColon(s, i + 1)

RECURSIVE LStrip(_)
LStrip(s) ==
    IF s # <<>> /\ Head(s) = " " THEN LStrip(Tail(s)) ELSE s

RECURSIVE RStrip(_)
RStrip(s) ==
    IF s # <<>> /\ s[Len(s)] = " " THEN RStrip(SubSeq(s, 1, Len(s) - 1)) ELSE s

Strip(s) == RStrip(LStrip(s))

\* s.split()[0]: the first whitespace-separated token, <<>> when s has none
RECURSIVE TakeToken(_)
TakeToken(s) ==
    IF s = <<>> \/ Head(s) = " " THEN <<>>
    ELSE <<Head(s)>> \o TakeToken(Tail(s))

FirstToken(s) == TakeToken(LStrip(s))

IsInt(tok) == tok # <<>> /\ \A i \in 1..Len(tok) : tok[i] \in Digits

RECURSIVE ToInt(_)
ToInt(tok) ==
    IF tok = <<>> THEN 0
    ELSE 10 * ToInt(SubSeq(tok, 1, Len(tok) - 1)) + DigitVal(tok[Len(tok)])

\* k, v = line.split(':', 1); int(v.strip().split()[0]) raises nothing
LineParses(line) ==
    /\ FindColon(line, 1) > 0
    /\ IsInt(FirstToken(SubSeq(line, FindColon(line, 1) + 1, Len(line))))

LineKey(line) == Strip(SubSeq(line, 1, FindColon(line, 1) - 1))

LineValue(line) ==
    ToInt(FirstToken(SubSeq(line, FindColon(line, 1) + 1, Len(line))))

\* out[k] = v
Put(out, k, v) ==
    [x \in DOMAIN out \cup {k} |-> IF x = k THEN v ELSE out[x]]

\* dict.get(k, default)
Get(d, k, default) == IF k \in DOMAIN d THEN d[k] ELSE default

EmptyDict == [x \in {} |-> 0]

-----------------------------------------------------------------------------
(* read_proc_meminfo, read_proc_status: the try block encloses the loop *)

RECURSIVE MeminfoLoop(_, _)
MeminfoLoop(lines, out) ==
    IF lines = <<>> THEN out
    ELSE IF ~LineParses(Head(lines)) THEN out
    ELSE MeminfoLoop(Tail(lines),
                     Put(out, LineKey(Head(lines)), LineValue(Head(lines))))

read_proc_meminfo(file) ==
    IF ~file.exists THEN EmptyDict ELSE MeminfoLoop(file.lines, EmptyDict)

\* line.startswith(('VmRSS:', 'VmSize:', 'VmPeak:'))
StartsWithVm(line) ==
    /\ Len(line) >= 2
    /\ line[1] \in {"VmRSS", "VmSize", "VmPeak"}
    /\ line[2] = ":"

RECURSIVE StatusLoop(_, _)
StatusLoop(lines, res) ==
    IF lines = <<>> THEN res
    ELSE IF ~StartsWithVm(Head(lines)) THEN StatusLoop(Tail(lines), res)
    ELSE IF ~LineParses(Head(lines)) THEN res
    ELSE StatusLoop(Tail(lines),
                    Put(res, LineKey(Head(lines)), LineValue(Head(lines))))

read_proc_status(file) ==
    IF ~file.exists THEN EmptyDict ELSE StatusLoop(file.lines, EmptyDict)

\* what the ActivityManager can answer when PyJNIus works
JniusInfo ==
    [totalMem_kb |-> 90, availMem_kb |-> 30, lowMemory |-> TRUE,
     pss_kb |-> 6, private_dirty_kb |-> 4]

\* get_memory_info_jnius: the dict, or None after any exception
JniusResults == {None, JniusInfo}

\* FallbackSnapshot with sysinfo.get('MemAvailable', -1): no MemFree fallback
FallbackSnapshot_NoMemFree(sys, proc) ==
    [totalMem_kb |-> Get(sys, <<"MemTotal">>, Unknown),
     availMem_kb |-> Get(sys, <<"MemAvailable">>, Unknown),
     lowMemory |-> FALSE,
     pss_kb |-> Get(proc, <<"VmRSS">>, Unknown),
     private_dirty_kb |-> Unknown]

\* the /proc branch of get_memory_snapshot, from the two parsed mappings
FallbackSnapshot(sys, proc) ==
    [totalMem_kb |-> Get(sys, <<"MemTotal">>, Unknown),
     availMem_kb |-> Get(sys, <<"MemAvailable">>,
                         Get(sys, <<"MemFree">>, Unknown)),
     lowMemory |-> FALSE,
     pss_kb |-> Get(proc, <<"VmRSS">>, Unknown),
     private_dirty_kb |-> Unknown]

\* if _HAS_JNIUS: jinfo = get_memory_info_jnius(pid); if jinfo: return jinfo
UsesJnius(jnius, jinfo) == jnius /\ jinfo # None

get_memory_snapshot(jnius, jinfo, memfile, statfile) ==
    IF UsesJnius(jnius, jinfo) THEN jinfo
    ELSE FallbackSnapshot(read_proc_meminfo(memfile),
                          read_proc_status(statfile))

get_pid == 7

-----------------------------------------------------------------------------
(* The files the parsers are run on *)

MeminfoLines ==
    { <<"MemTotal", ":", " ", "7", " ", "kB">>,
      <<"MemTotal", ":", "1", "2">>,
      <<"MemAvailable", ":", " ", "3", " ", "kB">>,
      <<"MemFree", ":", " ", "2", " ", "kB">>,
      <<"garbage">>,
      <<"MemFree", ":", " ", "x">>,
      <<"MemTotal", ":", " ">> }

StatusLines ==
    { <<"VmRSS", ":", " ", "5", " ", "kB">>,
      <<"VmSize", ":", " ", "9", " ", "kB">>,
      <<"Name", ":", " ", "app">>,
      <<"VmRSS", ":", " ", "x">>,
      <<"VmPeak", ":">> }

FilesOf(lineSet) ==
    { File(ls) : ls \in UNION { [1..n -> lineSet] : n \in 0..MaxLines } }
        \cup {Missing}

-----------------------------------------------------------------------------
(* demo_complex_operation: one worker thread, threads[w].  The thread     *)
(* reads shared state (the clock, the stop event) in its while condition  *)
(* alone, so a step is one evaluation of the condition with the iteration *)
(* it admits, up to the sleep.  allocated is len(allocated) and appended  *)
(* is len(allocated) when the six appends of that iteration were done.    *)

\* threading.Thread(target=demo_complex_operation, args=(stop_event, d))
\* .start(): end_time = time.time() + duration_sec; allocated = []
NewThread(d) ==
    [pc |-> "loop", end_time |-> now + d, allocated |-> 0, appended |-> 0,
     wake |-> now]

\* for _ in range(6): allocated.append(bytearray(100 * 1024)), from n
\* buffers; a MemoryError at any of the six empties the list
AppendChunks(n, oom) == IF oom THEN 0 ELSE n + ChunksPerIter

\* DropOldest with allocated[5:]: half as many buffers dropped
DropOldest_Half(n, oom) ==
    IF n > KeepLimit THEN (IF oom THEN 0 ELSE n - (DropCount \div 2)) ELSE n

\* if len(allocated) > 40: allocated = allocated[10:]; the slice builds a
\* new list, so it can raise MemoryError too
DropOldest(n, oom) ==
    IF n > KeepLimit THEN (IF oom THEN 0 ELSE n - DropCount) ELSE n

\* while time.time() < end_time and not stop_event.is_set(): the try block,
\* the busy loop over range(50000) and time.sleep(0.25); when the loop ends
\* the finally clause drops the list
WorkerLoop(w) ==
    /\ threads[w].pc = "loop"
    /\ now >= threads[w].wake
    /\ IF now < threads[w].end_time /\ ~stop_event
       THEN \E oom1, oom2 \in {FALSE, heap_tight} :
              LET n == AppendChunks(threads[w].allocated, oom1)
              IN threads' = [threads EXCEPT
                    ![w].appended = n,
                    ![w].allocated = IF oom1 THEN 0 ELSE DropOldest(n, oom2),
                    ![w].wake = now + SleepTime]
       ELSE threads' = [threads EXCEPT ![w].pc = "done", ![w].allocated = 0]
    /\ UNCHANGED <<now, sampling, samples, stop_event, start_time,
                   status_label, footer_label, clock, csv_files, runs, last,
                   presses, envVars, snapVars>>

demo_complex_operation == \E w \in DOMAIN threads : WorkerLoop(w)

\* a thread that is runnable at the present time
Runnable(w) == threads[w].pc = "loop" /\ threads[w].wake <= now

-----------------------------------------------------------------------------
(* The Kivy Clock: events fire in scheduling order once they are due *)

Event(cb, due, run) == [cb |-> cb, due |-> due, run |-> run]

\* Clock.unschedule(callback): every event of the callback goes
Unschedule(cl, cb) == SelectSeq(cl, LAMBDA e : e.cb # cb)

RemoveAt(cl, i) == SubSeq(cl, 1, i - 1) \o SubSeq(cl, i + 1, Len(cl))

Due(cl) == { i \in DOMAIN cl : cl[i].due <= now }

\* the event the Clock dispatches next
IsNext(i) == i \in Due(clock) /\ \A j \in Due(clock) : i <= j

-----------------------------------------------------------------------------
(* MemMonitorApp *)

Fieldnames ==
    <<"timestamp", "pid", "pss_kb", "private_dirty_kb", "totalMem_kb",
      "availMem_kb", "lowMemory">>

\* the sample dict _sample_tick builds from a snapshot
Sample(snap) ==
    [timestamp |-> now, pid |-> get_pid, pss_kb |-> snap.pss_kb,
     private_dirty_kb |-> snap.private_dirty_kb,
     totalMem_kb |-> snap.totalMem_kb, availMem_kb |-> snap.availMem_kb,
     lowMemory |-> snap.lowMemory]

\* get_memory_snapshot(self.pid) with the PyJNIus outcome jinfo: the result
\* and the two mappings it parsed on the /proc branch
TakeSnapshot(jinfo) ==
    /\ info' = get_memory_snapshot(has_jnius, jinfo, meminfo, status)
    /\ sysinfo' = IF UsesJnius(has_jnius, jinfo) THEN sysinfo
                  ELSE read_proc_meminfo(meminfo)
    /\ procinfo' = IF UsesJnius(has_jnius, jinfo) THEN procinfo
                   ELSE read_proc_status(status)

\* start_test without its guard: if self.sampling: return
start_test_Unguarded ==
    /\ sampling' = TRUE
    /\ samples' = <<>>
    /\ stop_event' = FALSE
    /\ status_label' = "Status: running"
    /\ start_time' = now
    /\ threads' = Append(threads, NewThread(duration_sec))
    /\ clock' = Append(clock, Event("_sample_tick", now + sample_interval,
                                    Len(runs) + 1))
    /\ runs' = Append(runs, [term |-> "active", rows |-> <<>>, at |-> 0,
                             saved |-> ""])
    /\ last' = IF sampling THEN "start_test:noop" ELSE "start_test"
    /\ UNCHANGED <<now, footer_label, csv_files, envVars, snapVars>>

\* start_test
start_test ==
    IF sampling
    THEN /\ last' = "start_test:noop"
         /\ UNCHANGED <<appVars, envVars, snapVars>>
    ELSE /\ sampling' = TRUE
         /\ samples' = <<>>
         /\ stop_event' = FALSE
         /\ status_label' = "Status: running"
         /\ start_time' = now
         /\ threads' = Append(threads, NewThread(duration_sec))
         /\ clock' = Append(clock, Event("_sample_tick", now + sample_interval,
                                         Len(runs) + 1))
         /\ runs' = Append(runs, [term |-> "active", rows |-> <<>>, at |-> 0,
                                  saved |-> ""])
         /\ last' = "start_test"
         /\ UNCHANGED <<now, footer_label, csv_files, envVars, snapVars>>

\* StopRun without self.stop_event.set()
StopRun_NoSet(finished, cl, rows) ==
    /\ sampling' = FALSE
    /\ stop_event' = stop_event
    /\ clock' = Append(Unschedule(cl, "_sample_tick"),
                       Event("save_csv", now + SaveDelay, Len(runs)))
    /\ status_label' = IF finished THEN "Status: finished"
                       ELSE "Status: stopped"
    /\ runs' = [runs EXCEPT ![Len(runs)] =
                  [term |-> IF finished THEN "finished" ELSE "stopped",
                   rows |-> rows, at |-> now, saved |-> ""]]

\* the body of stop_test past its guard, on the Clock events cl, with the
\* samples the run holds at that moment
StopRun(finished, cl, rows) ==
    /\ sampling' = FALSE
    /\ stop_event' = TRUE
    /\ clock' = Append(Unschedule(cl, "_sample_tick"),
                       Event("save_csv", now + SaveDelay, Len(runs)))
    /\ status_label' = IF finished THEN "Status: finished"
                       ELSE "Status: stopped"
    /\ runs' = [runs EXCEPT ![Len(runs)] =
                  [term |-> IF finished THEN "finished" ELSE "stopped",
                   rows |-> rows, at |-> now, saved |-> ""]]

\* stop_test(), as the Stop button calls it
stop_test ==
    IF ~sampling
    THEN /\ last' = "stop_test:noop"
         /\ UNCHANGED <<appVars, envVars, snapVars>>
    ELSE /\ StopRun(FALSE, clock, samples)
         /\ last' = "stop_test"
         /\ UNCHANGED <<now, samples, start_time, footer_label, threads,
                        csv_files, envVars, snapVars>>

\* _sample_tick, dispatched by the Clock
sample_tick ==
    \E i \in DOMAIN clock :
      /\ IsNext(i)
      /\ clock[i].cb = "_sample_tick"
      /\ IF ~sampling
         THEN /\ clock' = RemoveAt(clock, i)
              /\ UNCHANGED <<now, last, presses, sampling, samples, stop_event, start_time,
                             status_label, footer_label, threads, csv_files,
                             runs, envVars, snapVars>>
         ELSE \E jinfo \in JniusResults :
              /\ TakeSnapshot(jinfo)
              /\ samples' = Append(samples, Sample(info'))
              /\ IF now - start_time >= duration_sec
                 THEN StopRun(TRUE, clock, samples')
                 ELSE /\ clock' = [clock EXCEPT ![i].due = now + sample_interval]
                      /\ UNCHANGED <<sampling, stop_event, status_label, runs>>
              /\ UNCHANGED <<now, start_time, footer_label, threads,
                             csv_files, last, presses, envVars>>

\* SaveCsv that empties self.samples once the file is written
SaveCsv_Clears ==
    IF samples = <<>>
    THEN /\ footer_label' = "No samples to save."
         /\ UNCHANGED <<samples, csv_files>>
    ELSE \/ /\ csv_files' = Append(csv_files,
                                   [header |-> Fieldnames, rows |-> samples,
                                    run |-> Len(runs)])
            /\ footer_label' = "Saved to Downloads"
            /\ samples' = <<>>
         \/ /\ footer_label' = "Error saving CSV"
            /\ UNCHANGED <<samples, csv_files>>

\* SaveCsv that sets the footer before the write and swallows the exception
SaveCsv_Silent ==
    IF samples = <<>>
    THEN /\ footer_label' = "No samples to save."
         /\ UNCHANGED <<samples, csv_files>>
    ELSE \/ /\ csv_files' = Append(csv_files,
                                   [header |-> Fieldnames, rows |-> samples,
                                    run |-> Len(runs)])
            /\ footer_label' = "Saved to Downloads"
            /\ UNCHANGED samples
         \/ /\ footer_label' = "Saved to Downloads"
            /\ UNCHANGED <<samples, csv_files>>

\* the body of save_csv: nothing to save, a file written, or an exception
\* from get_save_path() or the writer caught and shown in the footer
SaveCsv ==
    IF samples = <<>>
    THEN /\ footer_label' = "No samples to save."
         /\ UNCHANGED <<samples, csv_files>>
    ELSE \/ /\ csv_files' = Append(csv_files,
                                   [header |-> Fieldnames, rows |-> samples,
                                    run |-> Len(runs)])
            /\ footer_label' = "Saved to Downloads"
            /\ UNCHANGED samples
         \/ /\ footer_label' = "Error saving CSV"
            /\ UNCHANGED <<samples, csv_files>>

\* save_csv(), as the Save button calls it
save_csv ==
    /\ SaveCsv
    /\ UNCHANGED <<now, sampling, stop_event, start_time, status_label,
                   clock, threads, runs, last, envVars, snapVars>>

\* the save_csv() that stop_test deferred, dispatched by the Clock
deferred_save ==
    \E i \in DOMAIN clock :
      /\ IsNext(i)
      /\ clock[i].cb = "save_csv"
      /\ SaveCsv
      /\ clock' = RemoveAt(clock, i)
      /\ runs' = [runs EXCEPT ![clock[i].run].saved = footer_label']
      /\ UNCHANGED <<now, sampling, stop_event, start_time, status_label,
                     threads, last, presses, envVars, snapVars>>

\* time.time() moves on by a quarter second
Elapse(limit) ==
    /\ now < limit
    /\ now' = now + 1

\* time passes in the app: by the end of a quarter second the Clock has
\* dispatched the events that were due and every runnable thread has run
tick_time ==
    /\ Due(clock) = {}
    /\ \A w \in DOMAIN threads : ~Runnable(w)
    /\ Elapse(MaxTime)
    /\ UNCHANGED <<sampling, samples, stop_event, start_time, status_label,
                   footer_label, clock, threads, csv_files, runs, last,
                   presses, envVars, snapVars>>

\* a button is pressed
Press ==
    /\ presses < MaxPresses
    /\ presses' = presses + 1

\* on_release: app.start_test(), app.stop_test(), app.save_csv()
StartButton == Press /\ start_test

StopButton == Press /\ stop_test

SaveButton == Press /\ save_csv

-----------------------------------------------------------------------------
(* The app: __init__, then the buttons, the Clock and the worker threads *)

ProcMeminfo ==
    File(<< <<"MemTotal", ":", " ", "7", " ", "kB">>,
            <<"MemFree", ":", " ", "2", " ", "kB">> >>)

ProcStatus == File(<< <<"VmRSS", ":", " ", "5", " ", "kB">> >>)

\* MemMonitorApp.__init__, before any thread is started
AppInit ==
    /\ now = 0
    /\ sampling = FALSE
    /\ samples = <<>>
    /\ stop_event = FALSE
    /\ start_time = 0
    /\ status_label = "Status: idle"
    /\ footer_label = "Ready."
    /\ clock = <<>>
    /\ csv_files = <<>>
    /\ runs = <<>>
    /\ last = "__init__"
    /\ presses = 0
    /\ sysinfo = EmptyDict
    /\ procinfo = EmptyDict
    /\ info = None

Init ==
    /\ AppInit
    /\ threads = <<>>
    /\ heap_tight = FALSE
    /\ has_jnius = FALSE
    /\ meminfo = ProcMeminfo
    /\ status = ProcStatus

Next ==
    \/ StartButton
    \/ StopButton
    \/ SaveButton
    \/ sample_tick
    \/ deferred_save
    \/ demo_complex_operation
    \/ tick_time

Spec == Init /\ [][Next]_vars

-----------------------------------------------------------------------------
(* get_memory_snapshot on its own, over every pair of /proc files *)

\* info = get_memory_snapshot(pid)
Snapshot ==
    /\ \E jinfo \in JniusResults :
         /\ TakeSnapshot(jinfo)
         /\ last' = IF UsesJnius(has_jnius, jinfo)
                    THEN "get_memory_snapshot:jnius"
                    ELSE "get_memory_snapshot:proc"
    /\ UNCHANGED <<appVars, presses, envVars>>

ParseInit ==
    /\ AppInit
    /\ threads = <<>>
    /\ heap_tight = FALSE
    /\ has_jnius \in BOOLEAN
    /\ meminfo \in FilesOf(MeminfoLines)
    /\ status \in FilesOf(StatusLines)

ParseNext == Snapshot

SpecParse == ParseInit /\ [][ParseNext]_vars

-----------------------------------------------------------------------------
(* demo_complex_operation on its own: one thread, its stop event, the clock *)

\* stop_event.set(), by the owner of the event
SetStopEvent ==
    /\ ~stop_event
    /\ stop_event' = TRUE
    /\ UNCHANGED <<now, sampling, samples, start_time, status_label,
                   footer_label, clock, threads, csv_files, runs, last,
                   presses, envVars, snapVars>>

\* time passes; the thread may be scheduled late
LoadElapse ==
    /\ Elapse(LoadDuration + SleepTime)
    /\ UNCHANGED <<sampling, samples, stop_event, start_time, status_label,
                   footer_label, clock, threads, csv_files, runs, last,
                   presses, envVars, snapVars>>

LoadInit ==
    /\ AppInit
    /\ threads = <<NewThread(LoadDuration)>>
    /\ heap_tight \in BOOLEAN
    /\ has_jnius = FALSE
    /\ meminfo = ProcMeminfo
    /\ status = ProcStatus

LoadNext ==
    \/ demo_complex_operation
    \/ SetStopEvent
    \/ LoadElapse

SpecLoad == LoadInit /\ [][LoadNext]_vars

-----------------------------------------------------------------------------
(* Properties *)

Max(S) == CHOOSE x \in S : \A y \in S : y <= x

\* the CSV files written from the samples of run r
Writes(r) == { i \in DOMAIN csv_files : csv_files[i].run = r }

TickEvents == { i \in DOMAIN clock : clock[i].cb = "_sample_tick" }

ActiveRuns == { r \in DOMAIN runs : runs[r].term = "active" }

\* the deferred saves of run r that are still on the Clock
SaveEvents(r) ==
    { i \in DOMAIN clock : clock[i].cb = "save_csv" /\ clock[i].run = r }

\* C1: every run that ended with samples gets exactly one deferred save, and
\* once that save has run without an I/O error a CSV file holds the samples
\* the run ended with.
C1_ExactlyOneWrite ==
    \A r \in DOMAIN runs :
        /\ Cardinality(SaveEvents(r)) <= 1
        /\ (/\ runs[r].term # "active"
            /\ runs[r].rows # <<>>
            /\ runs[r].saved \notin {"", "Error saving CSV"})
              => \E i \in Writes(r) : csv_files[i].rows = runs[r].rows

\* C2: while the deferred save of a terminated run is still on the Clock,
\* self.samples still holds the samples that run ended with.
C2_NoDiscardBeforeSave ==
    \A i \in DOMAIN clock :
        clock[i].cb = "save_csv" => samples = runs[clock[i].run].rows

\* C3: once the stop event has been set for a run, the next evaluation of
\* the while condition by that run's worker thread ends the thread.
C3_WorkerObservesCancel ==
    [][\A w \in DOMAIN threads :
          (/\ w \in DOMAIN runs
           /\ runs[w].term # "active"
           /\ threads[w].pc = "loop"
           /\ threads'[w] # threads[w])
          => threads'[w].pc = "done"]_vars

\* C4: start_test while a run is active changes neither the samples, the
\* stop event, the worker threads nor the Clock, and at most one run is
\* active with at most one sampling tick scheduled.
C4_StartWhileActiveNoOp ==
    /\ [](/\ Cardinality(ActiveRuns) <= 1
          /\ Cardinality(TickEvents) <= 1
          /\ sampling <=> ActiveRuns # {})
    /\ [][(sampling /\ StartButton)
             => (/\ sampling'
                 /\ UNCHANGED <<samples, stop_event, threads, clock,
                                start_time, runs>>)]_vars

C4_Witness ==
    /\ last = "start_test:noop"
    /\ sampling
    /\ samples # <<>>
    /\ Len(threads) = 1

\* C5: a save_csv that finds samples and writes no file shows the error in
\* the footer and leaves self.samples as it was.
C5_SaveFailureReported ==
    [][(/\ samples # <<>>
        /\ SaveButton \/ deferred_save
        /\ csv_files' = csv_files)
          => (/\ footer_label' = "Error saving CSV"
              /\ samples' = samples)]_vars

C5_Witness ==
    /\ footer_label = "Error saving CSV"
    /\ samples # <<>>
    /\ csv_files = <<>>
    /\ \E r \in DOMAIN runs : runs[r].saved = "Error saving CSV"

\* the lines of a file that the parser accepts
Accepted(file) ==
    { i \in DOMAIN file.lines : LineParses(file.lines[i]) }

AcceptedVm(file) ==
    { i \in Accepted(file) : StartsWithVm(file.lines[i]) }

\* C6: after the /proc files were parsed, every well-formed line of
\* /proc/meminfo has its label in the mapping, and so has every well-formed
\* Vm line of /proc/<pid>/status, whatever malformed lines precede it.
C6_MalformedLineSkipped ==
    last = "get_memory_snapshot:proc" =>
        /\ \A i \in Accepted(meminfo) :
               LineKey(meminfo.lines[i]) \in DOMAIN sysinfo
        /\ \A i \in AcceptedVm(status) :
               LineKey(status.lines[i]) \in DOMAIN procinfo

\* the value of the last of the given lines that carries the label, or -1
LabelValue(file, among, label) ==
    LET hits == { i \in among : LineKey(file.lines[i]) = <<label>> }
    IN IF hits = {} THEN -1 ELSE LineValue(file.lines[Max(hits)])

Lookup(d, label) == IF <<label>> \in DOMAIN d THEN d[<<label>>] ELSE -1

\* C7: on the /proc branch (no PyJNIus, or its query failed) the snapshot
\* has the five fields: totalMem_kb from MemTotal, availMem_kb from
\* MemAvailable or else MemFree, pss_kb from VmRSS, lowMemory false and
\* private_dirty_kb -1, with -1 for every label that is absent.
C7_FallbackFields ==
    /\ (last = "get_memory_snapshot:jnius" => has_jnius)
    /\ last = "get_memory_snapshot:proc" =>
        /\ DOMAIN info = {"totalMem_kb", "availMem_kb", "lowMemory",
                          "pss_kb", "private_dirty_kb"}
        /\ info.lowMemory = FALSE
        /\ info.private_dirty_kb = -1
        /\ info.totalMem_kb = Lookup(sysinfo, "MemTotal")
        /\ info.availMem_kb =
              IF <<"MemAvailable">> \in DOMAIN sysinfo
              THEN sysinfo[<<"MemAvailable">>]
              ELSE Lookup(sysinfo, "MemFree")
        /\ info.pss_kb = Lookup(procinfo, "VmRSS")
        /\ Accepted(meminfo) = DOMAIN meminfo.lines =>
              /\ info.totalMem_kb =
                    LabelValue(meminfo, Accepted(meminfo), "MemTotal")
              /\ info.availMem_kb =
                    IF LabelValue(meminfo, Accepted(meminfo),
                                  "MemAvailable") # -1
                    THEN LabelValue(meminfo, Accepted(meminfo), "MemAvailable")
                    ELSE LabelValue(meminfo, Accepted(meminfo), "MemFree")
        /\ (\A i \in DOMAIN status.lines :
               StartsWithVm(status.lines[i]) => i \in Accepted(status)) =>
              info.pss_kb = LabelValue(status, AcceptedVm(status), "VmRSS")
        /\ (~meminfo.exists /\ ~status.exists) =>
              /\ info.totalMem_kb = -1
              /\ info.availMem_kb = -1
              /\ info.pss_kb = -1

C7_Witness ==
    /\ last = "get_memory_snapshot:proc"
    /\ has_jnius
    /\ info.totalMem_kb = 12
    /\ info.availMem_kb = 2
    /\ info.pss_kb = -1

\* C8: from the end of a run to the next start_test, self.samples is what
\* the run ended with; a finished run ended with the sample its last tick
\* took, at the time that tick saw the duration elapsed.
C8_SamplesImmutable ==
    (~sampling /\ runs # <<>>) =>
        LET run == runs[Len(runs)]
        IN /\ samples = run.rows
           /\ run.term = "finished" =>
                 /\ samples # <<>>
                 /\ samples[Len(samples)].timestamp = run.at
                 /\ run.at - start_time >= duration_sec

C8_Witness ==
    /\ ~sampling
    /\ runs # <<>>
    /\ runs[Len(runs)].term = "finished"
    /\ runs[Len(runs)].saved = "Saved to Downloads"
    /\ Len(samples) >= 2
    /\ last = "stop_test:noop"

\* C9: after the first start_test the stop event is set exactly when no run
\* is active, and stop_test without an active run changes nothing.
C9_FlagIffIdle ==
    /\ [](runs # <<>> => (stop_event <=> ~sampling))
    /\ [][(~sampling /\ StopButton)
             => UNCHANGED <<stop_event, sampling, status_label, clock,
                            samples, runs>>]_vars

C9_Witness ==
    /\ last = "stop_test:noop"
    /\ runs # <<>>
    /\ stop_event
    /\ ~sampling

\* C10: the load generator never holds more than 46 buffers, holds at most
\* 40 at the end of an iteration, holds none once the loop has ended, and an
\* iteration the while condition admits never ends the loop, MemoryError
\* or not.
C10_BuffersBounded ==
    /\ [](\A w \in DOMAIN threads :
            /\ threads[w].appended <= 46
            /\ threads[w].allocated <= 40
            /\ threads[w].pc = "done" => threads[w].allocated = 0)
    /\ [][\A w \in DOMAIN threads :
            (/\ threads[w].pc = "loop"
             /\ threads'[w] # threads[w]
             /\ now < threads[w].end_time
             /\ ~stop_event)
            => (/\ threads'[w].pc = "loop"
                /\ threads'[w].appended \in
                      {0, threads[w].allocated + 6})]_vars

C10_Witness ==
    \E w \in DOMAIN threads :
        /\ threads[w].appended = 46
        /\ threads[w].allocated = 36
        /\ heap_tight

====
